---- MODULE Spec2Model ----
(***************************************************************************)
(* Model of smart_monitor.py: the S.M.A.R.T. disk health monitor.          *)
(*                                                                         *)
(* Text is a sequence of symbols.  A symbol is a one-character string (a   *)
(* digit, " ", "\n", ":", "%", "-", "x", ",") or a word that the regular   *)
(* expressions of the program treat as a unit (an attribute name, a label, *)
(* a vendor word).  The regular expressions are modelled by what they      *)
(* match on such a sequence.                                               *)
(***************************************************************************)
EXTENDS Integers, Sequences, FiniteSets, TLC

VARIABLES
  pc,               \* position of the run: boot, admin, init, scan, loop, summary, finally, exited
  admin,            \* environment: what IsUserAnAdmin() answers
  tool,             \* environment: state of the smartctl utility on this machine
  hazard,           \* environment: where an unexpected run-level exception is raised
  scan,             \* environment: the device ids that smartctl --scan lists
  smart,            \* environment: per device, the output of smartctl -i, -H and -A
  fault,            \* environment: per device, the statement of the loop body that raises
  disk_ids,         \* main: list of devices
  idx,              \* main: number of devices the loop has gone through
  disk_info,        \* main: record of the device processed last
  queries,          \* smartctl queries issued for the device processed last
  critical_issues,  \* main: the aggregate list of findings
  out,              \* lines printed so far
  exit_code         \* __main__: the exit status

vars == <<pc, admin, tool, hazard, scan, smart, fault, disk_ids, idx, disk_info,
          queries, critical_issues, out, exit_code>>

env == <<admin, tool, hazard, scan, smart, fault>>

----------------------------------------------------------------------------
(* Bounds *)

MaxDisks == 3

----------------------------------------------------------------------------
(* Program constants *)

TempCritical == 60
TempWarning == 50
LifeCritical == 10
LifeWarning == 20
FullLife == 100
HoursPerDay == 24

----------------------------------------------------------------------------
(* Characters, numbers and their conversions *)

DigitChar == <<"0", "1", "2", "3", "4", "5", "6", "7", "8", "9">>

DigitChars == {DigitChar[i] : i \in 1..10}

IsDigit(c) == c \in DigitChars

IsSpace(c) == c \in {" ", "\n"}

DigitVal(c) == CHOOSE k \in 0..9 : DigitChar[k + 1] = c

\* int(s) for a string of decimal digits
RECURSIVE ToInt(_)
ToInt(ds) ==
  IF Len(ds) = 0 THEN 0
  ELSE 10 * ToInt(SubSeq(ds, 1, Len(ds) - 1)) + DigitVal(ds[Len(ds)])

\* the decimal digits of a natural number, as str() writes them
RECURSIVE Digits(_)
Digits(n) ==
  IF n < 10 THEN <<DigitChar[n + 1]>>
  ELSE Digits(n \div 10) \o <<DigitChar[(n % 10) + 1]>>

\* f"{n}" for an integer: a minus sign in front of the digits of a negative one
Str(n) == IF n < 0 THEN <<"-">> \o Digits(0 - n) ELSE Digits(n)

\* str.isdigit()
isdigit(s) == Len(s) > 0 /\ \A i \in 1..Len(s) : IsDigit(s[i])

NA == <<"N/A">>

Unknown == <<"Unknown">>

PASSED == <<"PASSED">>

FAILED == <<"FAILED">>

NoMatch == <<>>

----------------------------------------------------------------------------
(* Regular expression matching on a text *)

Min(S) == CHOOSE x \in S : \A y \in S : x <= y

Max(S) == CHOOSE x \in S : \A y \in S : x >= y

\* index of the newline that ends the line of position i (Len + 1 on the last line)
LineEnd(t, i) ==
  LET nl == {k \in i..Len(t) : t[k] = "\n"}
  IN  IF nl = {} THEN Len(t) + 1 ELSE Min(nl)

\* last index of the run of digits that starts at j
DigitRunEnd(t, j) ==
  Max({k \in j..Len(t) : \A m \in j..k : IsDigit(t[m])})

\* last index of the run of characters of set cs that starts at j (j - 1 if none)
RunEnd(t, j, cs) ==
  Max({j - 1} \cup {k \in j..Len(t) : \A m \in j..k : t[m] \in cs})

\* re.search(r'(N1|N2|..).*?(\d+)', t): the leftmost name that has a digit
\* after it on its line, and the first run of digits after that name
SearchDigitsAfter(t, names) ==
  LET hits == {i \in 1..Len(t) :
                 /\ t[i] \in names
                 /\ \E j \in (i + 1)..(LineEnd(t, i) - 1) : IsDigit(t[j])}
  IN  IF hits = {} THEN NoMatch
      ELSE LET i == Min(hits)
               j == Min({k \in (i + 1)..(LineEnd(t, i) - 1) : IsDigit(t[k])})
           IN  <<[name |-> t[i], digits |-> SubSeq(t, j, DigitRunEnd(t, j))]>>

\* re.search(r'Label\s+(.+)', t): the leftmost label followed by white space
\* and at least one character that is not a newline; the group runs to the
\* end of that character's line
SearchRestAfter(t, label) ==
  LET starts(i) == {m \in (i + 1)..(Len(t) - 1) :
                      /\ \A k \in (i + 1)..m : IsSpace(t[k])
                      /\ t[m + 1] # "\n"}
      hits == {i \in 1..Len(t) : t[i] = label /\ starts(i) # {}}
  IN  IF hits = {} THEN NoMatch
      ELSE LET m == Max(starts(Min(hits)))
           IN  <<SubSeq(t, m + 1, LineEnd(t, m + 1) - 1)>>

\* re.search(r'Label(.+)', t), the label ending in its own blank
SearchLineAfter(t, label) ==
  LET hits == {i \in 1..(Len(t) - 1) : t[i] = label /\ t[i + 1] # "\n"}
  IN  IF hits = {} THEN NoMatch
      ELSE LET i == Min(hits)
           IN  <<SubSeq(t, i + 1, LineEnd(t, i + 1) - 1)>>

LabelAt(t, label, i) ==
  /\ i + Len(label) - 1 <= Len(t)
  /\ SubSeq(t, i, i + Len(label) - 1) = label

\* what has to follow the captured run: nothing, a "%", or white space and "Celsius"
TailOK(t, e, tail) ==
  CASE tail = "%" -> e < Len(t) /\ t[e + 1] = "%"
    [] tail = "Celsius" ->
         LET w == RunEnd(t, e + 1, {" ", "\n"})
         IN  w > e /\ w < Len(t) /\ t[w + 1] = "Celsius"
    [] OTHER -> TRUE

\* re.search(r'Label\s+([cs]+)<tail>', t): the leftmost label followed by white
\* space, a run of characters of cs and the tail; the group is the whole run
SearchRunAfter(t, label, cs, tail) ==
  LET s(i) == RunEnd(t, i + Len(label), {" ", "\n"}) + 1
      ok(i) == /\ LabelAt(t, label, i)
               /\ s(i) > i + Len(label)
               /\ RunEnd(t, s(i), cs) >= s(i)
               /\ TailOK(t, RunEnd(t, s(i), cs), tail)
      hits == {i \in 1..Len(t) : ok(i)}
  IN  IF hits = {} THEN NoMatch
      ELSE LET j == s(Min(hits))
           IN  <<SubSeq(t, j, RunEnd(t, j, cs))>>

\* "needle" in t, the needle a sequence of symbols
Contains(t, needle) == \E i \in 1..Len(t) : LabelAt(t, needle, i)

\* str.replace(c, '')
Remove(t, c) == SelectSeq(t, LAMBDA x : x # c)

----------------------------------------------------------------------------
(* Presentation helpers *)

\* round(num / den) to an integer; Python rounds an exact tie to even
RoundHalfEven(num, den) ==
  LET q == num \div den
      r == num % den
  IN  IF 2 * r > den \/ (2 * r = den /\ q % 2 = 1) THEN q + 1 ELSE q

\* f"{x}" for a float x of h hundredths: at least one decimal, no trailing zero
FloatStr(h) ==
  Digits(h \div 100) \o <<".">> \o
  (IF h % 10 = 0 THEN Digits((h % 100) \div 10)
   ELSE Digits((h % 100) \div 10) \o Digits(h % 10))

parse_power_on_hours(value) ==
  IF value = NA \/ value = <<>> THEN NA
  ELSE IF isdigit(value)
       THEN LET hours == ToInt(value)
            IN  Digits(hours \div HoursPerDay) \o <<" ", "days", ",", " ">> \o
                Digits(hours % HoursPerDay) \o <<" ", "hours">>
       ELSE value

\* bytes = lba * 512 and TB = bytes / 1024^4 = lba / 2^31, so round(TB, 2) is
\* round(25 * lba / 2^29) hundredths
parse_lba_to_tb(value) ==
  IF value = NA \/ value = <<>> THEN NA
  ELSE IF isdigit(value)
       THEN FloatStr(RoundHalfEven(25 * ToInt(value), 2 ^ 29)) \o <<" ", "TB">>
       ELSE value

\* NVMe data units of 512 KiB: TB = units * 512 * 1024 / 1024^4 = units / 2^21,
\* so round(TB, 2) is round(25 * units / 2^19) hundredths
nvme_units_to_tb(old, group) ==
  LET units == Remove(group, ",")
  IN  IF isdigit(units)
      THEN FloatStr(RoundHalfEven(25 * ToInt(units), 2 ^ 19)) \o <<" ", "TB">>
      ELSE old

----------------------------------------------------------------------------
(* get_disk_info *)

DefaultAttributes ==
  [Temperature |-> NA, PowerOnTime |-> NA, ReallocatedSectors |-> NA,
   PendingSectors |-> NA, UncorrectableSectors |-> NA, LifeRemaining |-> NA,
   TotalWritten |-> NA, TotalRead |-> NA]

DefaultDiskInfo ==
  [Model |-> Unknown, SerialNumber |-> Unknown, IsSSD |-> FALSE,
   HealthStatus |-> Unknown, Attributes |-> DefaultAttributes]

ParseModel(info_output) ==
  LET model_match == SearchRestAfter(info_output, "Device Model:")
      product_match == SearchRestAfter(info_output, "Product:")
      number_match == SearchRestAfter(info_output, "Model Number:")
  IN  IF model_match # NoMatch THEN model_match[1]
      ELSE IF product_match # NoMatch THEN product_match[1]
      ELSE IF number_match # NoMatch THEN number_match[1]
      ELSE Unknown

ParseSerial(info_output) ==
  LET serial_match == SearchRestAfter(info_output, "Serial Number:")
  IN  IF serial_match # NoMatch THEN serial_match[1] ELSE Unknown

ParseIsSSD(info_output, model) ==
  \/ Contains(info_output, <<"Solid State", " ", "Device">>)
  \/ Contains(info_output, <<"Rotation Rate:", " ", "Solid State">>)
  \/ Contains(info_output, <<"NVMe">>)
  \/ Contains(model, <<"SSD">>)

\* re.search(r'SMART/Health Information.*\s+(.*(normal|failed).*)', t, re.DOTALL):
\* the first .* is greedy, so the group starts after the last white space that
\* still has "normal" or "failed" somewhere behind it, and runs to the end
SearchNvmeHealth(t) ==
  LET hdr == {i \in 1..Len(t) : t[i] = "SMART/Health Information"}
      cut(i) == {w \in (i + 1)..Len(t) :
                   /\ IsSpace(t[w])
                   /\ \E k \in (w + 1)..Len(t) : t[k] \in {"normal", "failed"}}
      hits == {i \in hdr : cut(i) # {}}
  IN  IF hits = {} THEN NoMatch
      ELSE <<SubSeq(t, Max(cut(Min(hits))) + 1, Len(t))>>

\* "normal" in s.lower()
LowerHasNormal(s) == \E i \in 1..Len(s) : s[i] \in {"normal", "Normal", "NORMAL"}

ParseHealth(health_output) ==
  LET health_match ==
        SearchLineAfter(health_output,
                        "SMART overall-health self-assessment test result: ")
      nvme_health_match == SearchNvmeHealth(health_output)
  IN  IF health_output = <<>> THEN Unknown
      ELSE IF health_match # NoMatch THEN health_match[1]
      ELSE IF nvme_health_match # NoMatch
           THEN IF LowerHasNormal(nvme_health_match[1]) THEN PASSED ELSE FAILED
      ELSE Unknown

ParseTemperature(attr_output) ==
  LET temp_match == SearchDigitsAfter(attr_output, {"Temperature_Celsius"})
      alt_temp_match ==
        SearchDigitsAfter(attr_output,
          {"Airflow_Temperature_Cel", "Temperature", "Temperature_Celsius"})
      nvme_temp_match ==
        SearchRunAfter(attr_output, <<"Temperature", ":">>, DigitChars, "Celsius")
  IN  IF temp_match # NoMatch THEN temp_match[1].digits \o <<" ", "degC">>
      ELSE IF alt_temp_match # NoMatch THEN alt_temp_match[1].digits \o <<" ", "degC">>
      ELSE IF nvme_temp_match # NoMatch THEN nvme_temp_match[1] \o <<" ", "degC">>
      ELSE NA

ParsePowerOnTime(attr_output) ==
  LET poh_match == SearchDigitsAfter(attr_output, {"Power_On_Hours"})
      nvme_poh_match == SearchRunAfter(attr_output, <<"Power On Hours:">>, DigitChars, "")
  IN  IF poh_match # NoMatch THEN parse_power_on_hours(poh_match[1].digits)
      ELSE IF nvme_poh_match # NoMatch THEN parse_power_on_hours(nvme_poh_match[1])
      ELSE NA

ParseCounter(attr_output, names) ==
  LET m == SearchDigitsAfter(attr_output, names)
  IN  IF m # NoMatch THEN m[1].digits ELSE NA

ParseLifeRemaining(attr_output) ==
  LET wear_match ==
        SearchDigitsAfter(attr_output, {"Wear_Leveling_Count", "Media_Wearout_Indicator"})
      nvme_life_match == SearchRunAfter(attr_output, <<"Percentage Used:">>, DigitChars, "%")
  IN  IF wear_match # NoMatch
      THEN IF wear_match[1].name = "Media_Wearout_Indicator"
           THEN Str(FullLife - ToInt(wear_match[1].digits)) \o <<"%">>
           ELSE wear_match[1].digits \o <<"%">>
      ELSE IF nvme_life_match # NoMatch
           THEN Str(FullLife - ToInt(nvme_life_match[1])) \o <<"%">>
      ELSE NA

ParseTotal(attr_output, lba_name, nvme_label) ==
  LET lba_match == SearchDigitsAfter(attr_output, {lba_name})
      nvme_match == SearchRunAfter(attr_output, <<nvme_label>>, DigitChars \cup {","}, "")
  IN  IF lba_match # NoMatch THEN parse_lba_to_tb(lba_match[1].digits)
      ELSE IF nvme_match # NoMatch THEN nvme_units_to_tb(NA, nvme_match[1])
      ELSE NA

\* ParseAttributes that reads the sector counts whatever the kind of device
ParseAttributesAnyKind(attr_output, is_ssd) ==
  [Temperature |-> ParseTemperature(attr_output),
   PowerOnTime |-> ParsePowerOnTime(attr_output),
   ReallocatedSectors |-> ParseCounter(attr_output, {"Reallocated_Sector_Ct"}),
   PendingSectors |-> ParseCounter(attr_output, {"Current_Pending_Sector"}),
   UncorrectableSectors |->
     ParseCounter(attr_output, {"Offline_Uncorrectable", "Reported_Uncorrect"}),
   LifeRemaining |-> IF is_ssd THEN ParseLifeRemaining(attr_output) ELSE NA,
   TotalWritten |->
     IF is_ssd THEN ParseTotal(attr_output, "Total_LBAs_Written", "Data Units Written:")
     ELSE NA,
   TotalRead |->
     IF is_ssd THEN ParseTotal(attr_output, "Total_LBAs_Read", "Data Units Read:")
     ELSE NA]

ParseAttributes(attr_output, is_ssd) ==
  [Temperature |-> ParseTemperature(attr_output),
   PowerOnTime |-> ParsePowerOnTime(attr_output),
   ReallocatedSectors |->
     IF ~is_ssd THEN ParseCounter(attr_output, {"Reallocated_Sector_Ct"}) ELSE NA,
   PendingSectors |->
     IF ~is_ssd THEN ParseCounter(attr_output, {"Current_Pending_Sector"}) ELSE NA,
   UncorrectableSectors |->
     IF ~is_ssd
     THEN ParseCounter(attr_output, {"Offline_Uncorrectable", "Reported_Uncorrect"})
     ELSE NA,
   LifeRemaining |-> IF is_ssd THEN ParseLifeRemaining(attr_output) ELSE NA,
   TotalWritten |->
     IF is_ssd THEN ParseTotal(attr_output, "Total_LBAs_Written", "Data Units Written:")
     ELSE NA,
   TotalRead |->
     IF is_ssd THEN ParseTotal(attr_output, "Total_LBAs_Read", "Data Units Read:")
     ELSE NA]

\* the record of a device of known model and kind
BuildDiskInfo(rep, model, is_ssd) ==
  [Model |-> model,
   SerialNumber |-> ParseSerial(rep.i),
   IsSSD |-> is_ssd,
   HealthStatus |-> ParseHealth(rep.h),
   Attributes |->
     IF rep.a = <<>> THEN DefaultAttributes ELSE ParseAttributes(rep.a, is_ssd)]

TypedDiskInfo(rep, model) == BuildDiskInfo(rep, model, ParseIsSSD(rep.i, model))

\* get_disk_info going on after an identity query without output
get_disk_info_no_return(rep) == TypedDiskInfo(rep, ParseModel(rep.i))

\* rep is what smartctl prints for the device: rep.i for -i, rep.h for -H, rep.a for -A
get_disk_info(rep) ==
  IF rep.i = <<>> THEN DefaultDiskInfo ELSE TypedDiskInfo(rep, ParseModel(rep.i))

\* the queries get_disk_info sends to smartctl, in order
QueriesIssued(rep) ==
  IF rep.i = <<>> THEN <<"-i">> ELSE <<"-i", "-H", "-A">>

----------------------------------------------------------------------------
(* The checks of main's loop body *)

Finding(disk_id, info, kind, value) ==
  [disk |-> disk_id, model |-> info.Model, kind |-> kind, value |-> value]

\* re.search(r'(\d+)', s)
SearchDigits(s) ==
  LET ds == {j \in 1..Len(s) : IsDigit(s[j])}
  IN  IF ds = {} THEN NoMatch
      ELSE <<SubSeq(s, Min(ds), DigitRunEnd(s, Min(ds)))>>

\* re.search(r'(\d+)%', s)
SearchPercent(s) ==
  LET ds == {j \in 1..Len(s) :
               /\ IsDigit(s[j])
               /\ DigitRunEnd(s, j) < Len(s)
               /\ s[DigitRunEnd(s, j) + 1] = "%"}
  IN  IF ds = {} THEN NoMatch
      ELSE <<SubSeq(s, Min(ds), DigitRunEnd(s, Min(ds)))>>

\* HealthCheck that takes Unknown for a health value like any other
HealthCheckUnknown(disk_id, info) ==
  IF info.HealthStatus # PASSED
  THEN <<Finding(disk_id, info, "health status", info.HealthStatus)>>
  ELSE <<>>

HealthCheck(disk_id, info) ==
  IF info.HealthStatus # PASSED /\ info.HealthStatus # Unknown
  THEN <<Finding(disk_id, info, "health status", info.HealthStatus)>>
  ELSE <<>>

\* TemperatureCheck with the thresholds exclusive
TemperatureCheckAbove(disk_id, info) ==
  LET temp_match == SearchDigits(info.Attributes.Temperature)
      temp == ToInt(temp_match[1])
  IN  IF temp_match = NoMatch THEN <<>>
      ELSE IF temp > TempCritical
           THEN <<Finding(disk_id, info, "temperature critical", info.Attributes.Temperature)>>
      ELSE IF temp > TempWarning
           THEN <<Finding(disk_id, info, "temperature warning", info.Attributes.Temperature)>>
      ELSE <<>>

TemperatureCheck(disk_id, info) ==
  LET temp_match == SearchDigits(info.Attributes.Temperature)
      temp == ToInt(temp_match[1])
  IN  IF temp_match = NoMatch THEN <<>>
      ELSE IF temp >= TempCritical
           THEN <<Finding(disk_id, info, "temperature critical", info.Attributes.Temperature)>>
      ELSE IF temp >= TempWarning
           THEN <<Finding(disk_id, info, "temperature warning", info.Attributes.Temperature)>>
      ELSE <<>>

LifeCheck(disk_id, info) ==
  LET life_match == SearchPercent(info.Attributes.LifeRemaining)
      life_remaining == ToInt(life_match[1])
  IN  IF life_match = NoMatch THEN <<>>
      ELSE IF life_remaining <= LifeCritical
           THEN <<Finding(disk_id, info, "SSD life critically low", info.Attributes.LifeRemaining)>>
      ELSE IF life_remaining <= LifeWarning
           THEN <<Finding(disk_id, info, "SSD life warning", info.Attributes.LifeRemaining)>>
      ELSE <<>>

\* SectorCheck that reads an unset counter as a bad one
SectorCheckUnset(disk_id, info, value, kind) ==
  IF value = NA \/ (isdigit(value) /\ ToInt(value) > 0)
  THEN <<Finding(disk_id, info, kind, value)>>
  ELSE <<>>

SectorCheck(disk_id, info, value, kind) ==
  IF value # NA /\ isdigit(value) /\ ToInt(value) > 0
  THEN <<Finding(disk_id, info, kind, value)>>
  ELSE <<>>

\* The statements of the loop body that can raise, in program order.  Stage 8
\* stands for a pass in which nothing raises.
Stage(f) ==
  CASE f = "get_disk_info" -> 1
    [] f = "report" -> 2
    [] f = "temperature" -> 3
    [] f = "details" -> 4
    [] f = "first" -> 5
    [] f = "pending" -> 6
    [] f = "uncorrectable" -> 7
    [] OTHER -> 8

Faults == {"none", "get_disk_info", "report", "temperature", "details", "first",
           "pending", "uncorrectable"}

\* does the pass over a device with record info reach the raising statement f
Raises(info, f) ==
  \/ Stage(f) <= 5
  \/ Stage(f) <= 7 /\ ~info.IsSSD

\* The loop body from line 364 on for the record info: the findings appended
\* and the lines printed before the statement f raises (all of them when
\* nothing raises)
LoopBody(disk_id, info, f) ==
  [info |-> info,
   raised |-> Raises(info, f),
   issues |->
     (IF Stage(f) > 2 THEN HealthCheck(disk_id, info) ELSE <<>>) \o
     (IF Stage(f) > 3 THEN TemperatureCheck(disk_id, info) ELSE <<>>) \o
     (IF info.IsSSD
      THEN IF Stage(f) > 5 THEN LifeCheck(disk_id, info) ELSE <<>>
      ELSE (IF Stage(f) > 5
            THEN SectorCheck(disk_id, info, info.Attributes.ReallocatedSectors,
                             "reallocated sectors")
            ELSE <<>>) \o
           (IF Stage(f) > 6
            THEN SectorCheck(disk_id, info, info.Attributes.PendingSectors,
                             "pending sectors")
            ELSE <<>>) \o
           (IF Stage(f) > 7
            THEN SectorCheck(disk_id, info, info.Attributes.UncorrectableSectors,
                             "uncorrectable sectors")
            ELSE <<>>)),
   lines |->
     <<<<"Processing disk", disk_id>>>> \o
     (IF Stage(f) > 2 THEN <<<<"Disk", disk_id>>>> ELSE <<>>) \o
     (IF Stage(f) > 4
      THEN <<<<IF info.IsSSD THEN "SSD Life Remaining" ELSE "Reallocated Sectors",
               disk_id>>>>
      ELSE <<>>) \o
     (IF Raises(info, f) THEN <<<<"ERROR processing disk", disk_id>>>> ELSE <<>>)]

\* One pass of the loop body for disk_id, rep being what smartctl prints for it
ProcessOne(disk_id, rep, f) ==
  LoopBody(disk_id, IF Stage(f) > 1 THEN get_disk_info(rep) ELSE DefaultDiskInfo, f)

----------------------------------------------------------------------------
(* get_physical_disks *)

\* the words that have "/dev/" in them
DeviceNames == {"/dev/sda", "/dev/sdb", "/dev/sdc", "/dev/sdd", "/dev/sde"}

\* the first word of every line of the scan output that has "/dev/" in it
RECURSIVE get_physical_disks(_)
get_physical_disks(output) ==
  IF output = <<>> THEN <<>>
  ELSE LET e == LineEnd(output, 1)
           line == SubSeq(output, 1, e - 1)
           rest == SubSeq(output, e + 1, Len(output))
           words == SelectSeq(line, LAMBDA x : ~IsSpace(x))
           has_dev == \E k \in 1..Len(line) : line[k] \in DeviceNames
       IN  (IF has_dev THEN <<words[1]>> ELSE <<>>) \o get_physical_disks(rest)

----------------------------------------------------------------------------
(* What smartctl prints: the lines the environment is built from *)

\* a row of the ATA attribute table: ID# NAME FLAG VALUE WORST THRESH TYPE UPDATED
\* WHEN_FAILED RAW_VALUE
AtaRow(id, name, raw) ==
  Digits(id) \o <<" ", name, " ", "0", "x", "0", "0", "3", "3", " ",
                  "1", "0", "0", " ", "1", "0", "0", " ", "0", "1", "0", " ",
                  "Pre-fail", " ", "Always", " ", "-", " ">> \o Digits(raw) \o <<"\n">>

\* a line "name: n"
KeyValue(name, n) == <<name, ":", " ">> \o Digits(n) \o <<"\n">>

NvmeTemperature(n) == <<"Temperature", ":", " ">> \o Digits(n) \o <<" ", "Celsius", "\n">>

NvmeUsed(n) == <<"Percentage Used:", " ">> \o Digits(n) \o <<"%", "\n">>

HealthLine(value) ==
  <<"SMART overall-health self-assessment test result: ">> \o value \o <<"\n">>

NvmeHealth(word) ==
  <<"SMART/Health Information", " ", "(NVMe Log 0x02)", "\n",
    "Critical Warning:", " ", word, "\n">>

ScanLine(disk_id) ==
  <<disk_id, " ", "-d", " ", "ata", " ", "#", " ", disk_id, ",", " ", "ATA device", "\n">>

RECURSIVE ScanOutput(_)
ScanOutput(ids) ==
  IF ids = <<>> THEN <<>> ELSE ScanLine(ids[1]) \o ScanOutput(Tail(ids))

IdentityHDD ==
  <<"Device Model:", " ", " ", "WDC", " ", "WD10EZEX", "\n",
    "Serial Number:", " ", "WD-WCC6Y", "\n",
    "Rotation Rate:", " ", "7", "2", "0", "0", " ", "rpm", "\n">>

IdentitySSD ==
  <<"Device Model:", " ", "Samsung", " ", "SSD", " ", "8", "6", "0", "\n",
    "Serial Number:", " ", "S3Z9NB0K", "\n",
    "Rotation Rate:", " ", "Solid State", " ", "Device", "\n">>

IdentityProduct ==
  <<"Vendor:", " ", "KINGSTON", "\n", "Product:", " ", "SSD", "\n">>

IdentityNVMe ==
  <<"Model Number:", " ", "WDC", " ", "PC", " ", "SN730", "\n",
    "Serial Number:", " ", "2", "0", "1", "1", "\n",
    "NVMe", " ", "Version:", " ", "1", ".", "3", "\n">>

Identities == {<<>>, IdentityHDD, IdentitySSD, IdentityProduct, IdentityNVMe}

HealthValues == {PASSED, <<"FAILED!">>, <<"PASSED", " ">>, Unknown}

Healths ==
  {<<>>, <<"smartctl", " ", "7", ".", "3", "\n">>,
   NvmeHealth("normal"), NvmeHealth("failed"),
   <<"SMART overall-health self-assessment test result: ", "\n">> \o NvmeHealth("failed")}
  \cup {HealthLine(v) : v \in HealthValues}

Temperatures == {0, 49, 50, 59, 60, 61}

TemperatureParts ==
  {<<>>, AtaRow(194, "Temperature_Celsius", 60), NvmeTemperature(60),
   <<"Temperature", ":", "\n", " ">> \o Digits(50) \o <<" ", "Celsius", "\n">>,
   KeyValue("Airflow_Temperature_Cel", 59)}
  \cup {KeyValue("Temperature_Celsius", n) : n \in Temperatures}

RawCounts == {0, 8}

SectorParts ==
  {<<>>,
   KeyValue("Reallocated_Sector_Ct", 0) \o KeyValue("Current_Pending_Sector", 3),
   KeyValue("Reallocated_Sector_Ct", 8) \o KeyValue("Current_Pending_Sector", 3)
     \o KeyValue("Offline_Uncorrectable", 2),
   KeyValue("Reported_Uncorrect", 1)}
  \cup {AtaRow(5, "Reallocated_Sector_Ct", n) : n \in RawCounts}

WearValues == {0, 79, 80, 85, 89, 90, 100, 115, 150}

WearParts ==
  {<<>>,
   KeyValue("Wear_Leveling_Count", 15) \o KeyValue("Media_Wearout_Indicator", 95),
   AtaRow(233, "Media_Wearout_Indicator", 85)}
  \cup {KeyValue("Media_Wearout_Indicator", n) : n \in WearValues}
  \cup {NvmeUsed(n) : n \in WearValues}

UsageParts ==
  {<<>>,
   KeyValue("Power_On_Hours", 1000) \o KeyValue("Total_LBAs_Written", 26843546)
     \o <<"Data Units Read:", " ", "2", ",", "0", "9", "7", ",", "1", "5", "2", " ",
          "[", "1", ".", "0", "7", " ", "TB", "]", "\n">>,
   <<"Power On Hours:", " ", "4", "9", "\n",
     "Data Units Written:", " ", "2", "6", "2", ",", "1", "4", "4", "\n">>
     \o KeyValue("Total_LBAs_Read", 5)}

Report(i, h, a) == [i |-> i, h |-> h, a |-> a]

\* reports that vary the attribute text
AttributeReports ==
  {Report(i, h, t \o s \o w \o u) :
     i \in {IdentityHDD, IdentitySSD}, h \in {HealthLine(PASSED)},
     t \in TemperatureParts, s \in SectorParts, w \in WearParts, u \in {<<>>}}
  \cup
  {Report(i, HealthLine(<<"FAILED!">>), t \o s \o w \o u) :
     i \in {IdentityHDD, IdentityNVMe},
     t \in {<<>>, KeyValue("Temperature_Celsius", 60)},
     s \in SectorParts, w \in WearParts, u \in UsageParts}

\* reports that vary the identity and the health text
IdentityReports ==
  {Report(i, h, a) :
     i \in Identities, h \in Healths,
     a \in {<<>>, KeyValue("Temperature_Celsius", 50) \o NvmeUsed(85)
                  \o KeyValue("Reallocated_Sector_Ct", 8)}}

\* the reports the devices of a batch are drawn from
BatchReports ==
  {Report(IdentityHDD, HealthLine(PASSED), KeyValue("Temperature_Celsius", 49)),
   Report(IdentityHDD, HealthLine(<<"FAILED!">>),
          KeyValue("Temperature_Celsius", 60) \o KeyValue("Reallocated_Sector_Ct", 8)
            \o KeyValue("Offline_Uncorrectable", 2)),
   Report(IdentitySSD, HealthLine(PASSED),
          KeyValue("Temperature_Celsius", 50) \o NvmeUsed(85))}

BatchFaults == {"none", "get_disk_info", "first"}

AllDisks == <<"/dev/sda", "/dev/sdb", "/dev/sdc", "/dev/sdd", "/dev/sde">>

Tools == {"cached", "installed", "no download", "no extract", "no smartctl"}

Hazards == {"none", "print", "makedirs"}

\* a machine: the answers the environment gives to one run
Machine(ok, t, hz, ids, reps, fs) ==
  [admin |-> ok, tool |-> t, hazard |-> hz, scan |-> ScanOutput(ids),
   smart |-> reps, fault |-> fs]

Range(f) == {f[x] : x \in DOMAIN f}

OneDisk == {AllDisks[1]}

InfraMachines ==
  {Machine(ok, t, hz, ids, [d \in Range(ids) |-> r], [d \in Range(ids) |-> "none"]) :
     ok \in BOOLEAN, t \in Tools, hz \in Hazards,
     ids \in {<<>>, SubSeq(AllDisks, 1, 1)}, r \in BatchReports}

BatchMachines ==
  UNION {{Machine(TRUE, "cached", "none", SubSeq(AllDisks, 1, n), reps, fs) :
            reps \in [Range(SubSeq(AllDisks, 1, n)) -> BatchReports],
            fs \in [Range(SubSeq(AllDisks, 1, n)) -> BatchFaults]} : n \in 1..MaxDisks}

SingleMachines ==
  {Machine(TRUE, "cached", "none", SubSeq(AllDisks, 1, 1),
           [d \in OneDisk |-> r], [d \in OneDisk |-> "none"]) : r \in AttributeReports}
  \cup
  {Machine(TRUE, "cached", "none", SubSeq(AllDisks, 1, 1),
           [d \in OneDisk |-> r], [d \in OneDisk |-> f]) :
     r \in IdentityReports, f \in Faults}

Machines == InfraMachines \cup BatchMachines \cup SingleMachines

----------------------------------------------------------------------------
(* The run *)

StartMarker == <<"<-Start Result->">>

EndMarker == <<"<-End Result->">>

Unexpected == <<<<"ERROR: An unexpected error occurred">>, <<"Stack Trace">>>>

Init ==
  /\ \E m \in Machines :
       /\ admin = m.admin
       /\ tool = m.tool
       /\ hazard = m.hazard
       /\ scan = m.scan
       /\ smart = m.smart
       /\ fault = m.fault
  /\ pc = "boot"
  /\ disk_ids = <<>>
  /\ idx = 0
  /\ disk_info = DefaultDiskInfo
  /\ queries = <<>>
  /\ critical_issues = <<>>
  /\ out = <<>>
  /\ exit_code = -1

\* __main__: print the start marker and call main
Start ==
  /\ pc = "boot"
  /\ out' = out \o <<StartMarker>>
  /\ pc' = "admin"
  /\ UNCHANGED <<env, disk_ids, idx, disk_info, queries, critical_issues, exit_code>>

\* main returns code: __main__ keeps it for sys.exit
Return(code, lines) ==
  /\ out' = out \o lines
  /\ exit_code' = code
  /\ pc' = "finally"

\* CheckAdmin leaving the process at once when the privilege is missing
CheckAdminExits ==
  /\ pc = "admin"
  /\ ~(~admin /\ hazard = "print")
  /\ IF admin
     THEN /\ pc' = "init"
          /\ UNCHANGED <<out, exit_code>>
     ELSE /\ out' = out \o <<<<"ERROR: This script requires administrative privileges to run.">>>>
          /\ exit_code' = 1
          /\ pc' = "exited"
  /\ UNCHANGED <<env, disk_ids, idx, disk_info, queries, critical_issues>>

\* main: the privilege check, before the try statement
CheckAdmin ==
  /\ pc = "admin"
  /\ ~(~admin /\ hazard = "print")
  /\ IF admin
     THEN /\ pc' = "init"
          /\ UNCHANGED <<out, exit_code>>
     ELSE Return(1, <<<<"ERROR: This script requires administrative privileges to run.">>>>)
  /\ UNCHANGED <<env, disk_ids, idx, disk_info, queries, critical_issues>>

\* the print of the privilege error raises: the exception leaves main and
\* __main__ catches it
MainRaises ==
  /\ pc = "admin"
  /\ ~admin /\ hazard = "print"
  /\ Return(1, Unexpected)
  /\ UNCHANGED <<env, disk_ids, idx, disk_info, queries, critical_issues>>

\* main: initialize_smartmontools
Initialize ==
  /\ pc = "init"
  /\ LET hello == <<<<"Initializing SmartMonTools...">>>>
         using == <<<<"Using SmartMonTools at">>>>
         failed == <<<<"ERROR: Failed to initialize SmartMonTools">>>>
     IN  CASE tool = "cached" ->
                /\ out' = out \o hello \o <<<<"SmartMonTools already available.">>>> \o using
                /\ pc' = "scan"
                /\ UNCHANGED exit_code
           [] tool # "cached" /\ hazard = "makedirs" ->
                Return(1, hello \o Unexpected)
           [] tool = "installed" /\ hazard # "makedirs" ->
                /\ out' = out \o hello \o <<<<"Downloading">>>> \o using
                /\ pc' = "scan"
                /\ UNCHANGED exit_code
           [] tool = "no download" /\ hazard # "makedirs" ->
                Return(1, hello \o <<<<"Downloading">>, <<"Error downloading file">>>> \o failed)
           [] tool = "no extract" /\ hazard # "makedirs" ->
                Return(1, hello \o <<<<"Downloading">>, <<"Error extracting files">>>> \o failed)
           [] OTHER ->
                Return(1, hello \o <<<<"Downloading">>,
                                     <<"ERROR: Failed to find smartctl.exe">>>> \o failed)
  /\ UNCHANGED <<env, disk_ids, idx, disk_info, queries, critical_issues>>

\* main: get_physical_disks and the head of the report
Scan ==
  /\ pc = "scan"
  /\ LET ids == get_physical_disks(scan)
     IN  /\ disk_ids' = ids
         /\ IF ids = <<>>
            THEN Return(1, <<<<"Scanning for physical disks...">>,
                             <<"ERROR: No physical disks detected.">>>>)
            ELSE /\ out' = out \o <<<<"Scanning for physical disks...">>,
                                    <<"===== S.M.A.R.T. Disk Health Report =====">>>>
                 /\ pc' = "loop"
                 /\ UNCHANGED exit_code
  /\ UNCHANGED <<env, idx, disk_info, queries, critical_issues>>

\* the effect of one pass r of the loop body
Aggregate(r, extracted, rep) ==
  /\ disk_info' = IF extracted THEN r.info ELSE disk_info
  /\ queries' = IF extracted THEN QueriesIssued(rep) ELSE <<>>
  /\ critical_issues' = critical_issues \o r.issues
  /\ out' = out \o r.lines

\* main: one pass of the loop over disk_ids
ProcessDisk ==
  /\ pc = "loop"
  /\ idx < Len(disk_ids)
  /\ Aggregate(ProcessOne(disk_ids[idx + 1], smart[disk_ids[idx + 1]],
                          fault[disk_ids[idx + 1]]),
               Stage(fault[disk_ids[idx + 1]]) > 1,
               smart[disk_ids[idx + 1]])
  /\ idx' = idx + 1
  /\ UNCHANGED <<env, disk_ids, pc, exit_code>>

\* Summary with the status decided by the critical findings alone
SummaryCriticalOnly ==
  /\ pc = "loop"
  /\ idx = Len(disk_ids)
  /\ IF \E k \in 1..Len(critical_issues) :
          critical_issues[k].kind \notin {"temperature warning", "SSD life warning"}
     THEN Return(1, <<<<"===== Summary =====">>, <<"CRITICAL ISSUES DETECTED:">>,
                      <<"Status: WARNING">>>>)
     ELSE Return(0, <<<<"===== Summary =====">>, <<"All disks appear to be healthy.">>,
                      <<"Status: OK">>>>)
  /\ UNCHANGED <<env, disk_ids, idx, disk_info, queries, critical_issues>>

\* main: the summary section and the return value
Summary ==
  /\ pc = "loop"
  /\ idx = Len(disk_ids)
  /\ IF critical_issues # <<>>
     THEN Return(1, <<<<"===== Summary =====">>, <<"CRITICAL ISSUES DETECTED:">>,
                      <<"Status: WARNING">>>>)
     ELSE Return(0, <<<<"===== Summary =====">>, <<"All disks appear to be healthy.">>,
                      <<"Status: OK">>>>)
  /\ UNCHANGED <<env, disk_ids, idx, disk_info, queries, critical_issues>>

\* __main__: the finally clause
Finally ==
  /\ pc = "finally"
  /\ out' = out \o <<EndMarker>>
  /\ pc' = "exited"
  /\ UNCHANGED <<env, disk_ids, idx, disk_info, queries, critical_issues, exit_code>>

Next ==
  \/ Start
  \/ CheckAdmin
  \/ MainRaises
  \/ Initialize
  \/ Scan
  \/ ProcessDisk
  \/ Summary
  \/ Finally

Spec == Init /\ [][Next]_vars

----------------------------------------------------------------------------
(* Vocabulary of the properties *)

\* the device the loop processed last (idx > 0)
Cur == disk_ids[idx]

\* the record of the device processed last is its own: get_disk_info returned
Extracted == idx > 0 /\ Stage(fault[Cur]) > 1

\* the pass over the device processed last ran to its end
Classified == idx > 0 /\ ~Raises(disk_info, fault[Cur]) /\ Stage(fault[Cur]) > 1

\* the findings of device d in the aggregate
IssuesOf(d) == SelectSeq(critical_issues, LAMBDA x : x.disk = d)

\* the number of findings of a kind among those of the device processed last
CountOf(kinds) == Len(SelectSeq(IssuesOf(Cur), LAMBDA x : x.kind \in kinds))

Printed(line) == \E k \in 1..Len(out) : out[k] = line

Occurrences(line) == Cardinality({k \in 1..Len(out) : out[k] = line})

SectorKinds == {"reallocated sectors", "pending sectors", "uncorrectable sectors"}

LifeKinds == {"SSD life critically low", "SSD life warning"}

TemperatureKinds == {"temperature critical", "temperature warning"}

\* the temperature of the record in degrees, -1 when it is unset
RecordTemperature ==
  LET s == disk_info.Attributes.Temperature
  IN  IF s = NA THEN -1 ELSE ToInt(SubSeq(s, 1, Len(s) - 2))

\* is the life remaining of the record set, and its signed value in percent
LifeSet == disk_info.Attributes.LifeRemaining # NA

RecordLife ==
  LET s == disk_info.Attributes.LifeRemaining
  IN  IF s[1] = "-" THEN 0 - ToInt(SubSeq(s, 2, Len(s) - 1))
      ELSE ToInt(SubSeq(s, 1, Len(s) - 1))

\* a sector counter of the record is set and above zero
Positive(value) == value # NA /\ ToInt(value) > 0

Bit(b) == IF b THEN 1 ELSE 0

NoSymbol(t, names) == \A k \in 1..Len(t) : t[k] \notin names

----------------------------------------------------------------------------
(* C1 *)

\* does the pass over device d raise
DeviceRaises(d) == ProcessOne(d, smart[d], fault[d]).raised

\* C1: in every batch, a device whose pass raises at any point contributes no
\* finding to the aggregate and gets a processing-error line naming it, and
\* every other device is reported completely, with all of its findings in the
\* aggregate.
C1_FaultingDeviceContributesNothing ==
  \A j \in 1..idx :
    IF DeviceRaises(disk_ids[j])
    THEN /\ IssuesOf(disk_ids[j]) = <<>>
         /\ Printed(<<"ERROR processing disk", disk_ids[j]>>)
    ELSE /\ IssuesOf(disk_ids[j]) = ProcessOne(disk_ids[j], smart[disk_ids[j]], "none").issues
         /\ Printed(<<"Disk", disk_ids[j]>>)
         /\ ~Printed(<<"ERROR processing disk", disk_ids[j]>>)

----------------------------------------------------------------------------
(* C2 *)

\* an exception is raised at run level: by the print of the privilege error,
\* or inside initialize_smartmontools
RunLevelException ==
  \/ ~admin /\ hazard = "print"
  \/ admin /\ tool # "cached" /\ hazard = "makedirs"

InfrastructureFailure ==
  \/ ~admin
  \/ tool \notin {"cached", "installed"}
  \/ get_physical_disks(scan) = <<>>
  \/ RunLevelException

\* C2: the exit status of a finished run is 0 exactly when there was no
\* infrastructure failure and the aggregate list of findings is empty, and 1
\* otherwise.
C2_ExitStatus ==
  pc = "exited" =>
    /\ exit_code \in {0, 1}
    /\ exit_code = 0 <=> (~InfrastructureFailure /\ critical_issues = <<>>)

\* a run over several devices, one of them with a pass that raised, exits with 0
C2_Witness ==
  /\ pc = "exited"
  /\ exit_code = 0
  /\ Len(disk_ids) > 1
  /\ \E j \in 1..Len(disk_ids) : DeviceRaises(disk_ids[j])

----------------------------------------------------------------------------
(* C9 *)

\* C9: the start marker is the first line of every run and is printed once;
\* the end marker is printed once, as the last line, in the step that ends the
\* run with its exit status, whichever way main was left.
C9_SentinelMarkers ==
  /\ pc = "boot" => out = <<>>
  /\ pc # "boot" => Len(out) >= 1 /\ out[1] = StartMarker
  /\ Occurrences(StartMarker) <= 1
  /\ pc # "exited" => Occurrences(EndMarker) = 0
  /\ pc = "exited" =>
       /\ out[Len(out)] = EndMarker
       /\ Occurrences(EndMarker) = 1
       /\ exit_code \in {0, 1}

\* a run that an exception escaping main has ended
C9_Witness ==
  /\ pc = "exited"
  /\ ~admin /\ hazard = "print"
  /\ out = <<StartMarker>> \o Unexpected \o <<EndMarker>>

----------------------------------------------------------------------------
(* C3 *)

----------------------------------------------------------------------------
(* C4 *)

\* C4: a device that is not solid-state and whose attribute text has a
\* well-formed ATA row of Reallocated_Sector_Ct with raw value R gets R as its
\* reallocated sector count, one "reallocated sectors" finding with that value
\* when R > 0, and none when R = 0.
C4_ReallocatedRawValue ==
  \A n \in RawCounts :
    (/\ Classified
     /\ ~disk_info.IsSSD
     /\ smart[Cur].a # <<>>
     /\ Contains(smart[Cur].a, AtaRow(5, "Reallocated_Sector_Ct", n)))
    => /\ disk_info.Attributes.ReallocatedSectors = Digits(n)
       /\ CountOf({"reallocated sectors"}) = Bit(n > 0)

----------------------------------------------------------------------------
(* C5 *)

\* the attribute text reports a wear of n: by a Media_Wearout_Indicator line
\* that no Wear_Leveling_Count row competes with, or by an NVMe "Percentage
\* Used" line in a text without wear rows
WearReported(t, n) ==
  \/ /\ Contains(t, KeyValue("Media_Wearout_Indicator", n))
     /\ NoSymbol(t, {"Wear_Leveling_Count"})
  \/ /\ Contains(t, NvmeUsed(n))
     /\ NoSymbol(t, {"Wear_Leveling_Count", "Media_Wearout_Indicator"})

\* C5: a solid-state device whose wear is reported as N has life remaining
\* L = 100 - N, and gets exactly one "SSD life critically low" finding when
\* L <= 10, exactly one "SSD life warning" finding when 10 < L <= 20, and no
\* life finding when L > 20, for every N including those above 100.
C5_LifeRemaining ==
  \A n \in WearValues :
    (Classified /\ disk_info.IsSSD /\ WearReported(smart[Cur].a, n))
    => /\ disk_info.Attributes.LifeRemaining = Str(FullLife - n) \o <<"%">>
       /\ FullLife - n <= 10 =>
            CountOf({"SSD life critically low"}) = 1 /\ CountOf({"SSD life warning"}) = 0
       /\ (FullLife - n > 10 /\ FullLife - n <= 20) =>
            CountOf({"SSD life warning"}) = 1 /\ CountOf({"SSD life critically low"}) = 0
       /\ FullLife - n > 20 => CountOf(LifeKinds) = 0

----------------------------------------------------------------------------
(* C6 *)

CountersAndTemperatureUnset ==
  /\ disk_info.Attributes.ReallocatedSectors = NA
  /\ disk_info.Attributes.PendingSectors = NA
  /\ disk_info.Attributes.UncorrectableSectors = NA
  /\ disk_info.Attributes.Temperature = NA

\* C6 as stated: a record with all sector counters and the temperature unset
\* yields no finding, whatever its other fields are.
C6_UnsetIsNeverAFinding ==
  (Classified /\ CountersAndTemperatureUnset) => IssuesOf(Cur) = <<>>

\* C6 as amended: a record with all sector counters and the temperature unset
\* yields no finding when its health is PASSED or Unknown and its life
\* remaining is unset or above 20, solid-state or not, and the run of that one
\* device exits with 0; a device with an empty attribute text has every
\* attribute unset and can only get the health-status finding.
C6_UnsetWithGoodHealth ==
  /\ (/\ Extracted
      /\ CountersAndTemperatureUnset
      /\ disk_info.HealthStatus \in {PASSED, Unknown}
      /\ LifeSet => RecordLife > 20)
     => /\ IssuesOf(Cur) = <<>>
        /\ (pc = "exited" /\ Len(disk_ids) = 1) => exit_code = 0
  /\ (Extracted /\ smart[Cur].a = <<>>)
     => /\ disk_info.Attributes = DefaultAttributes
        /\ CountOf({"health status"}) = Len(IssuesOf(Cur))

\* a device that is not solid-state, with an identity and an empty attribute
\* text, classified without a finding
C6_Witness ==
  /\ Classified
  /\ ~disk_info.IsSSD
  /\ smart[Cur].i # <<>>
  /\ smart[Cur].a = <<>>
  /\ disk_info.HealthStatus = PASSED
  /\ IssuesOf(Cur) = <<>>
  /\ pc = "exited"

----------------------------------------------------------------------------
(* C7 *)

NoHealthPhrase(t) ==
  NoSymbol(t, {"SMART overall-health self-assessment test result: ",
               "SMART/Health Information"})

\* C7: once the health check of a device has run there is one "health status"
\* finding, carrying the health value, exactly when that value is neither
\* PASSED nor Unknown; the value after the self-assessment phrase is copied as
\* it stands; a health text without a recognizable phrase leaves the value at
\* Unknown, without a finding.
C7_HealthFinding ==
  (Extracted /\ Stage(fault[Cur]) > 2) =>
    /\ CountOf({"health status"}) = Bit(disk_info.HealthStatus \notin {PASSED, Unknown})
    /\ \A k \in 1..Len(IssuesOf(Cur)) :
         IssuesOf(Cur)[k].kind = "health status" =>
           IssuesOf(Cur)[k].value = disk_info.HealthStatus
    /\ \A v \in HealthValues :
         (smart[Cur].i # <<>> /\ smart[Cur].h = HealthLine(v)) => disk_info.HealthStatus = v
    /\ NoHealthPhrase(smart[Cur].h) =>
         disk_info.HealthStatus = Unknown /\ CountOf({"health status"}) = 0

\* a device whose health text says FAILED!, with its finding
C7_Witness ==
  /\ Extracted /\ Stage(fault[Cur]) > 2
  /\ smart[Cur].h = HealthLine(<<"FAILED!">>)
  /\ disk_info.HealthStatus = <<"FAILED!">>
  /\ CountOf({"health status"}) = 1

----------------------------------------------------------------------------
(* C8 *)

\* C8: in every record get_disk_info returns, the sector counts are set only
\* when the device is not solid-state, and life remaining, total written and
\* total read only when it is; a solid-state device gets no sector finding and
\* a device that is not solid-state gets no SSD-life finding.
C8_FieldsFollowTheKind ==
  Extracted =>
    /\ disk_info.IsSSD =>
         /\ disk_info.Attributes.ReallocatedSectors = NA
         /\ disk_info.Attributes.PendingSectors = NA
         /\ disk_info.Attributes.UncorrectableSectors = NA
         /\ CountOf(SectorKinds) = 0
    /\ ~disk_info.IsSSD =>
         /\ disk_info.Attributes.LifeRemaining = NA
         /\ disk_info.Attributes.TotalWritten = NA
         /\ disk_info.Attributes.TotalRead = NA
         /\ CountOf(LifeKinds) = 0

\* a solid-state device whose attribute text carries rows of both kinds, with
\* its own fields set
C8_Witness ==
  /\ Classified
  /\ disk_info.IsSSD
  /\ Contains(smart[Cur].a, KeyValue("Reallocated_Sector_Ct", 8))
  /\ Contains(smart[Cur].a, KeyValue("Total_LBAs_Written", 26843546))
  /\ disk_info.Attributes.LifeRemaining # NA
  /\ disk_info.Attributes.TotalWritten # NA
  /\ disk_info.Attributes.ReallocatedSectors = NA

----------------------------------------------------------------------------
(* C10 *)

\* C10: the number of findings of a device is the sum of 1 for a health value
\* other than PASSED and Unknown, 1 for a temperature of 50 or more, and, for
\* a solid-state device, 1 for a life remaining of 20 or less, for a device
\* that is not solid-state, the number of its sector counters that are set and
\* above zero.
C10_FindingsAddUp ==
  Classified =>
    Len(IssuesOf(Cur)) =
      Bit(disk_info.HealthStatus \notin {PASSED, Unknown})
      + Bit(RecordTemperature >= 50)
      + (IF disk_info.IsSSD
         THEN Bit(LifeSet /\ RecordLife <= 20)
         ELSE Bit(Positive(disk_info.Attributes.ReallocatedSectors))
              + Bit(Positive(disk_info.Attributes.PendingSectors))
              + Bit(Positive(disk_info.Attributes.UncorrectableSectors)))

----------------------------------------------------------------------------
(* C11 *)

\* what the identity texts say: model, serial number and kind of the device
IdentityFacts ==
  {[i |-> IdentityHDD, model |-> <<"WDC", " ", "WD10EZEX">>,
    serial |-> <<"WD-WCC6Y">>, ssd |-> FALSE],
   [i |-> IdentitySSD, model |-> <<"Samsung", " ", "SSD", " ", "8", "6", "0">>,
    serial |-> <<"S3Z9NB0K">>, ssd |-> TRUE],
   [i |-> IdentityProduct, model |-> <<"SSD">>, serial |-> Unknown, ssd |-> TRUE],
   [i |-> IdentityNVMe, model |-> <<"WDC", " ", "PC", " ", "SN730">>,
    serial |-> <<"2", "0", "1", "1">>, ssd |-> TRUE]}

\* C11: get_disk_info sends its queries in the order -i, -H, -A, each at most
\* once.  After an identity query without output it sends no other query and
\* returns the all-default record, so the device gets no finding whatever its
\* health text says.  After an attribute query without output the record keeps
\* the identity and health fields and every attribute stays N/A.
C11_QueryOrderAndEarlyReturns ==
  Extracted =>
    /\ queries \in {<<"-i">>, <<"-i", "-H", "-A">>}
    /\ smart[Cur].i = <<>> =>
         /\ queries = <<"-i">>
         /\ disk_info = DefaultDiskInfo
         /\ IssuesOf(Cur) = <<>>
    /\ smart[Cur].i # <<>> => queries = <<"-i", "-H", "-A">>
    /\ (smart[Cur].i # <<>> /\ smart[Cur].a = <<>>) =>
         /\ disk_info.Attributes = DefaultAttributes
         /\ \A f \in IdentityFacts :
              smart[Cur].i = f.i =>
                /\ disk_info.Model = f.model
                /\ disk_info.SerialNumber = f.serial
                /\ disk_info.IsSSD = f.ssd
         /\ \A v \in HealthValues :
              smart[Cur].h = HealthLine(v) => disk_info.HealthStatus = v

\* a device whose identity query gave no output while its health text says
\* FAILED!, classified to the end without a finding
C11_Witness ==
  /\ Classified
  /\ smart[Cur].i = <<>>
  /\ smart[Cur].h = HealthLine(<<"FAILED!">>)
  /\ queries = <<"-i">>
  /\ disk_info = DefaultDiskInfo
  /\ IssuesOf(Cur) = <<>>

\* a device whose attribute query gave no output, with its identity and its
\* health kept
C11_WitnessNoAttributes ==
  /\ Classified
  /\ smart[Cur].i = IdentitySSD
  /\ smart[Cur].h = HealthLine(<<"FAILED!">>)
  /\ smart[Cur].a = <<>>
  /\ queries = <<"-i", "-H", "-A">>
  /\ disk_info.HealthStatus = <<"FAILED!">>
  /\ disk_info.Attributes = DefaultAttributes

====
